---- MODULE Spec2Model ----
(***************************************************************************)
(* Model of pynumaflow/function/server.py: the UserDefinedFunctionServicer *)
(* (MapFn, ReduceFn, IsReady) and the server lifecycle driven by start()   *)
(* and __serve().                                                          *)
(*                                                                         *)
(* The event loop and the grpc.aio server are modelled at the granularity  *)
(* of the await points of __serve/start: awaiting server.start(), awaiting *)
(* server.wait_for_termination(), awaiting server.stop(5).                 *)
(***************************************************************************)
EXTENDS Integers, Sequences, FiniteSets, TLC

\* ------------------------------------------------------------------ bounds
MaxMeta == 2      \* longest invocation metadata (entries)
MaxOut == 2       \* longest message list a callback returns
MaxStream == 2    \* longest Reduce request stream
MaxCalls == 2     \* call slots (concurrently in-flight RPCs)
MaxStarts == 2    \* calls of start() on the one object
MaxProbes == 2    \* recorded IsReady responses

\* --------------------------------------------------------------- constants
\* the names imported from pynumaflow._constants stand for their values
DATUM_KEY == "DATUM_KEY"
FUNCTION_SOCK_PATH == "FUNCTION_SOCK_PATH"
MAX_MESSAGE_SIZE == "MAX_MESSAGE_SIZE"
GracePeriod == 5

\* ------------------------------------------------------------------ values
MetaNames == {DATUM_KEY, "other"}
MetaValues == {"a", "b"}
MetaEntries == MetaNames \X MetaValues
Payloads == {"hello", "bye"}
MsgKeys == {"a", "b"}

SeqsUpTo(S, n) == UNION {[1..k -> S] : k \in 0..n}

Metadatas == SeqsUpTo(MetaEntries, MaxMeta)
SmallMetadatas == {<<>>, <<<<DATUM_KEY, "a">>>>}

Requests == [value : Payloads, event_time : {0}, watermark : {0}]
SmallRequests == [value : {"hello"}, event_time : {0}, watermark : {0}]

\* pynumaflow.function.Message: key and value
Message == [key : MsgKeys, value : Payloads]

\* pynumaflow.function.Messages: an ordered collection; None is the value
\* that has no items()
Messages(s) == [type |-> "Messages", messages |-> s]
None == [type |-> "NoneType", messages |-> <<>>]

\* what one invocation of the map handler does: it returns a value or raises
Returns(r) == [kind |-> "returns", result |-> r]
Raises == [kind |-> "raises", result |-> None]
UDFMapCallable ==
    {Returns(Messages(s)) : s \in SeqsUpTo(Message, MaxOut)} \cup {Returns(None), Raises}
SmallUDFMapCallable ==
    {Returns(Messages(<<[key |-> "a", value |-> "hello"]>>)), Returns(None), Raises}

\* ---------------------------------------------------------- pure functions
\* MapFn lines 68-71: the scan of context.invocation_metadata()
\* the scan with a break at the first match
RECURSIVE ScanMetadataBreak(_, _)
ScanMetadataBreak(md, key) ==
    IF md = <<>> THEN key
    ELSE IF Head(md)[1] = DATUM_KEY THEN Head(md)[2]
    ELSE ScanMetadataBreak(Tail(md), key)

RECURSIVE ScanMetadata(_, _)
ScanMetadata(md, key) ==
    IF md = <<>> THEN key
    ELSE ScanMetadata(Tail(md),
                      IF Head(md)[1] = DATUM_KEY THEN Head(md)[2] ELSE key)

\* the scan without the comparison of the entry's name
invocation_key_any(md) == IF md = <<>> THEN "" ELSE md[Len(md)][2]

invocation_key(md) == ScanMetadata(md, "")

\* Datum(value=..., event_time=...ToDatetime(), watermark=...ToDatetime())
Datum(request) ==
    [value |-> request.value,
     event_time |-> request.event_time,
     watermark |-> request.watermark]

\* Messages.as_forward_all(None): the "drop" sentinel
as_forward_all(json_data) == Messages(<<>>)

\* msgs.items(): defined for a Messages collection only
has_items(msgs) == msgs.type = "Messages"
items(msgs) == msgs.messages

\* udfunction_pb2.Datum(key=msg.key, value=msg.value)
pb2_Datum(msg) ==
    [key |-> msg.key, value |-> msg.value, event_time |-> "unset", watermark |-> "unset"]

\* the loop inserting at the front instead of appending
RECURSIVE PrependDatums(_, _)
PrependDatums(datums, rest) ==
    IF rest = <<>> THEN datums
    ELSE PrependDatums(<<pb2_Datum(Head(rest))>> \o datums, Tail(rest))

\* MapFn lines 88-90: the loop that appends one wire Datum per message
RECURSIVE AppendDatums(_, _)
AppendDatums(datums, rest) ==
    IF rest = <<>> THEN datums
    ELSE AppendDatums(Append(datums, pb2_Datum(Head(rest))), Tail(rest))

\* the handler called without the failure boundary
handler_msgs_unguarded(outcome) == outcome.result

\* MapFn lines 73-86: the failure boundary around the handler
handler_msgs(outcome) ==
    IF outcome.kind = "raises" THEN as_forward_all(None) ELSE outcome.result

\* MapFn calling the handler a second time after a failure, logging each one
MapFnRetry(request, metadata, outcome) ==
    LET key == invocation_key(metadata)
        msgs == handler_msgs(outcome)
        failed == outcome.kind = "raises"
    IN  [key |-> key, datum |-> Datum(request),
         invoked |-> IF failed THEN 2 ELSE 1, logs |-> IF failed THEN 2 ELSE 0,
         code |-> "unset", details |-> "",
         raised |-> IF has_items(msgs) THEN "none" ELSE "AttributeError",
         returned |-> has_items(msgs),
         elements |-> IF has_items(msgs) THEN AppendDatums(<<>>, items(msgs)) ELSE <<>>,
         consumed |-> 0]

\* the whole of MapFn for one request, its metadata and what the handler does
MapFnResult(request, metadata, outcome) ==
    LET key == invocation_key(metadata)
        msgs == handler_msgs(outcome)
        logs == IF outcome.kind = "raises" THEN 1 ELSE 0
    IN  IF has_items(msgs)
        THEN [key |-> key, datum |-> Datum(request), invoked |-> 1, logs |-> logs,
              code |-> "unset", details |-> "", raised |-> "none",
              returned |-> TRUE, elements |-> AppendDatums(<<>>, items(msgs)),
              consumed |-> 0]
        ELSE [key |-> key, datum |-> Datum(request), invoked |-> 1, logs |-> logs,
              code |-> "unset", details |-> "", raised |-> "AttributeError",
              returned |-> FALSE, elements |-> <<>>,
              consumed |-> 0]

\* ReduceFn as a silent no-op that drains the stream and returns an empty list
ReduceFnNoOp(request_iterator) ==
    [key |-> "", datum |-> Datum([value |-> "", event_time |-> 0, watermark |-> 0]),
     invoked |-> 0, logs |-> 0,
     code |-> "unset", details |-> "", raised |-> "none",
     returned |-> TRUE, elements |-> <<>>,
     consumed |-> Len(request_iterator)]

\* the whole of ReduceFn for a request stream
ReduceFnResult(request_iterator) ==
    [key |-> "", datum |-> Datum([value |-> "", event_time |-> 0, watermark |-> 0]),
     invoked |-> 0, logs |-> 0,
     code |-> "UNIMPLEMENTED", details |-> "Method not implemented!",
     raised |-> "NotImplementedError",
     returned |-> FALSE, elements |-> <<>>,
     consumed |-> 0]

\* ------------------------------------------------------------------- state
VARIABLES
    self,          \* the servicer object: the fields __init__ sets
    servicer,      \* the servicer object registered with the server (line 123)
    pc,            \* where start() is: "idle", "serve", "wait", "cleanup"
    server,        \* the grpc.aio server: "none", "starting", "started", "stopping", "stopped"
    loop_closed,   \* the event loop asyncio.get_event_loop() returns is closed
    grace,         \* time elapsed since server.stop(5) was called
    calls,         \* the RPCs, one per slot: inputs, state and outcome
    ready,         \* the responses of the IsReady calls so far
    starts,        \* number of start() calls so far
    start_error,   \* what the try body of start() raised
    start_result   \* what start() ended with, as its caller sees it

vars == <<self, servicer, pc, server, loop_closed, grace, calls, ready, starts, start_error, start_result>>

Slots == 1..MaxCalls
Streams == SeqsUpTo(Payloads, MaxStream)
SmallStreams == {<<>>, <<"hello", "bye">>}

NoRequest == [value |-> "", event_time |-> 0, watermark |-> 0]
NoResult ==
    [key |-> "", datum |-> Datum(NoRequest), invoked |-> 0, logs |-> 0,
     code |-> "unset", details |-> "", raised |-> "none",
     returned |-> FALSE, elements |-> <<>>, consumed |-> 0]
FreeCall ==
    [state |-> "free", kind |-> "none", request |-> NoRequest, metadata |-> <<>>,
     stream |-> <<>>, outcome |-> Raises, res |-> NoResult]

InFlight == {c \in Slots : calls[c].state = "inflight"}

\* __init__, lines 50-59
__init__(map_handler, sock_path, max_message_size) ==
    [map_handler |-> map_handler,
     sock_path |-> <<"unix://", sock_path>>,
     max_message_size |-> max_message_size,
     cleanup_coroutines |-> <<>>]

\* the lifecycle state of the spec, read off the grpc.aio server
Lifecycle ==
    CASE server = "none" -> "CREATED"
      [] server = "starting" -> "STARTING"
      [] server = "started" -> "SERVING"
      [] server = "stopping" -> "STOPPING"
      [] server = "stopped" -> "STOPPED"

Init ==
    /\ self = __init__("map_handler", FUNCTION_SOCK_PATH, MAX_MESSAGE_SIZE)
    /\ servicer = <<>>
    /\ pc = "idle"
    /\ server = "none"
    /\ loop_closed = FALSE
    /\ grace = 0
    /\ calls = [c \in Slots |-> FreeCall]
    /\ ready = <<>>
    /\ starts = 0
    /\ start_error = "none"
    /\ start_result = "none"

\* ------------------------------------------------------------- the handlers
\* a server that keeps accepting during the grace period
AcceptingInGrace == server \in {"started", "stopping"}

\* a server whose one thread of control is held by the handler that runs
AcceptingWhenIdle == server = "started" /\ InFlight = {}

\* a server that a failed handler takes out of service
AcceptingIfHealthy == server = "started" /\ \A c \in 1..MaxCalls : calls[c].res.logs = 0

\* the server dispatches a new RPC to the servicer only between the end of
\* server.start() and the call of server.stop(5) (comment, lines 131-133)
Accepting == server = "started"

\* an RPC in flight may still finish: before stop, or within the grace period
MayFinish == server = "started" \/ (server = "stopping" /\ grace < GracePeriod)

\* a Map RPC arrives and MapFn is entered
Dispatch(c, request, metadata) ==
    /\ Accepting
    /\ calls[c].state # "inflight"
    /\ calls' = [calls EXCEPT ![c] =
                    [FreeCall EXCEPT !.state = "inflight", !.kind = "MapFn",
                                     !.request = request, !.metadata = metadata]]
    /\ UNCHANGED <<self, servicer, pc, server, loop_closed, grace, ready, starts, start_error, start_result>>

\* MapFn keeping something on the servicer for every call it handles
CompleteKeeping(c, outcome) ==
    /\ calls[c].state = "inflight"
    /\ MayFinish
    /\ calls' = [calls EXCEPT ![c] =
                    [calls[c] EXCEPT !.state = "done", !.outcome = outcome,
                                     !.res = MapFnResult(calls[c].request,
                                                         calls[c].metadata, outcome)]]
    /\ servicer' = <<[servicer[1] EXCEPT !.cleanup_coroutines = Append(@, "flush")]>>
    /\ UNCHANGED <<self, pc, server, loop_closed, grace, ready, starts, start_error, start_result>>

\* MapFn with the key kept in a field all calls share: the metadata read is
\* that of the call that entered last
CompleteShared(c, outcome) ==
    /\ calls[c].state = "inflight"
    /\ MayFinish
    /\ calls' = [calls EXCEPT ![c] =
                    [calls[c] EXCEPT !.state = "done", !.outcome = outcome,
                                     !.res = MapFnResult(calls[c].request,
                                                         calls[CHOOSE d \in InFlight :
                                                                 \A e \in InFlight : d >= e].metadata,
                                                         outcome)]]
    /\ UNCHANGED <<self, servicer, pc, server, loop_closed, grace, ready, starts, start_error, start_result>>

\* MapFn runs to its end: lines 61-92
Complete(c, outcome) ==
    /\ calls[c].state = "inflight"
    /\ MayFinish
    /\ calls' = [calls EXCEPT ![c] =
                    [calls[c] EXCEPT !.state = "done", !.outcome = outcome,
                                     !.res = MapFnResult(calls[c].request,
                                                         calls[c].metadata, outcome)]]
    /\ UNCHANGED <<self, servicer, pc, server, loop_closed, grace, ready, starts, start_error, start_result>>

\* ReduceFn, lines 94-104
ReduceFn(c, request_iterator) ==
    /\ Accepting
    /\ calls[c].state # "inflight"
    /\ calls' = [calls EXCEPT ![c] =
                    [FreeCall EXCEPT !.state = "done", !.kind = "ReduceFn",
                                     !.stream = request_iterator,
                                     !.res = ReduceFnResult(request_iterator)]]
    /\ UNCHANGED <<self, servicer, pc, server, loop_closed, grace, ready, starts, start_error, start_result>>

\* the Map calls, among those the slots hold, whose handler raised
FailedMaps == {c \in Slots : calls[c].res.logs > 0}

\* readiness made to depend on the health of the earlier Map calls
ReadyIfHealthy == FailedMaps = {}

\* IsReady, lines 106-113: ReadyResponse(ready=True)
ReadyResponse == TRUE

IsReady ==
    /\ Accepting
    /\ Len(ready) < MaxProbes
    /\ ready' = Append(ready, [ready |-> ReadyResponse, failed |-> FailedMaps # {}])
    /\ UNCHANGED <<self, servicer, pc, server, loop_closed, grace, calls, starts, start_error, start_result>>

\* ------------------------------------------------------------ the lifecycle
\* a fresh event loop for every start()
loop_always_usable == TRUE

\* asyncio.get_event_loop() hands out the same loop again, closed or not
loop_usable == ~loop_closed

\* line 145 without the star: the list itself is no awaitable
finally_error_nostar(cleanup_coroutines) == "TypeError"

\* line 145: loop.run_until_complete(*self._cleanup_coroutines) takes exactly
\* one awaitable, a closed loop runs nothing
finally_error(cleanup_coroutines) ==
    IF Len(cleanup_coroutines) # 1 THEN "TypeError"
    ELSE IF ~loop_usable THEN "RuntimeError"
    ELSE "none"

\* start(), lines 139-143: up to the first await of __serve (server.start())
Start ==
    /\ pc = "idle"
    /\ starts < MaxStarts
    /\ starts' = starts + 1
    /\ IF loop_usable
       THEN /\ pc' = "serve"
            /\ server' = "starting"
            /\ start_error' = "none"
            /\ start_result' = "none"
       ELSE \* line 143 raises "Event loop is closed", then the finally block
            /\ start_error' = "RuntimeError"
            /\ start_result' = finally_error(self.cleanup_coroutines)
            /\ UNCHANGED <<pc, server>>
    /\ UNCHANGED <<self, servicer, loop_closed, grace, calls, ready>>

\* __serve, lines 122-137: the server, with a second servicer object built
\* around the same handler added to it, has started; the shutdown coroutine
\* is registered and wait_for_termination() is awaited
ServeStarted ==
    /\ pc = "serve"
    /\ server' = "started"
    /\ servicer' = <<__init__(self.map_handler, FUNCTION_SOCK_PATH, MAX_MESSAGE_SIZE)>>
    /\ self' = [self EXCEPT !.cleanup_coroutines = Append(@, "server_graceful_shutdown")]
    /\ pc' = "wait"
    /\ UNCHANGED <<loop_closed, grace, calls, ready, starts, start_error, start_result>>

\* the end of start() when its finally block cannot run the cleanup: the
\* error of line 145 replaces the one of the try body, loop.close() is skipped
FinallyFails(error, srv) ==
    /\ pc' = "idle"
    /\ server' = srv
    /\ start_error' = error
    /\ start_result' = finally_error(self.cleanup_coroutines)
    /\ UNCHANGED <<self, servicer, loop_closed, grace, calls, ready, starts>>

\* the finally block starts the one registered coroutine: server.stop(5)
FinallyStops(error) ==
    /\ pc' = "cleanup"
    /\ server' = "stopping"
    /\ grace' = 0
    /\ start_error' = error
    /\ UNCHANGED <<self, servicer, loop_closed, calls, ready, starts, start_result>>

\* __serve, lines 116-127: add_insecure_port or server.start() raises (or the
\* process is interrupted during startup); the server object is dropped
ServeFails ==
    /\ pc = "serve"
    /\ IF finally_error(self.cleanup_coroutines) = "none"
       THEN FinallyStops("StartupError")
       ELSE FinallyFails("StartupError", "none")

\* KeyboardInterrupt while wait_for_termination() is awaited (line 143),
\* then line 145 up to the await of server.stop(5)
Interrupt ==
    /\ pc = "wait"
    /\ IF finally_error(self.cleanup_coroutines) = "none"
       THEN FinallyStops("KeyboardInterrupt")
       ELSE FinallyFails("KeyboardInterrupt", server)

\* time passes in the grace period while RPCs are outstanding
GraceTick ==
    /\ pc = "cleanup"
    /\ server = "stopping"
    /\ InFlight # {}
    /\ grace < GracePeriod
    /\ grace' = grace + 1
    /\ UNCHANGED <<self, servicer, pc, server, loop_closed, calls, ready, starts, start_error, start_result>>

\* server.stop(5) aborts an RPC that is still outstanding
Abort(call) ==
    [call EXCEPT !.state = "terminated",
                 !.res = [NoResult EXCEPT !.code = "CANCELLED"]]

\* server.stop without a grace period: it waits for every outstanding RPC
StopDoneNoGrace ==
    /\ pc = "cleanup"
    /\ server = "stopping"
    /\ InFlight = {}
    /\ server' = "stopped"
    /\ loop_closed' = TRUE
    /\ pc' = "idle"
    /\ start_result' = start_error
    /\ UNCHANGED <<self, servicer, grace, calls, ready, starts, start_error>>

\* server.stop(5) returns, lines 134, 145-146: all RPCs have finished or the
\* grace period is over; loop.close(); start() re-raises the error of the try
StopDone ==
    /\ pc = "cleanup"
    /\ server = "stopping"
    /\ InFlight = {} \/ grace = GracePeriod
    /\ calls' = [c \in Slots |-> IF c \in InFlight THEN Abort(calls[c]) ELSE calls[c]]
    /\ server' = "stopped"
    /\ loop_closed' = TRUE
    /\ pc' = "idle"
    /\ start_result' = start_error
    /\ UNCHANGED <<self, servicer, grace, ready, starts, start_error>>

\* ----------------------------------------------------------- specifications
MapCall == \E c \in Slots, r \in SmallRequests, md \in SmallMetadatas : Dispatch(c, r, md)
MapFn == \E c \in Slots, o \in SmallUDFMapCallable : Complete(c, o)
ReduceCall == \E c \in Slots, s \in SmallStreams : ReduceFn(c, s)

Next ==
    \/ Start
    \/ ServeStarted
    \/ ServeFails
    \/ Interrupt
    \/ GraceTick
    \/ StopDone
    \/ MapCall
    \/ MapFn
    \/ ReduceCall
    \/ IsReady

Spec == Init /\ [][Next]_vars

\* start() and the Map calls alone
NextShutdown ==
    \/ Start
    \/ ServeStarted
    \/ ServeFails
    \/ Interrupt
    \/ GraceTick
    \/ StopDone
    \/ MapCall
    \/ MapFn

\* the event loop keeps running the coroutine the finally block awaits: the
\* grace period elapses and server.stop(5) returns; no handler has to finish
SpecFair == Init /\ [][NextShutdown]_vars /\ WF_vars(GraceTick) /\ WF_vars(StopDone)

\* the handlers alone, on a started server, over all the bounded inputs
InitServing ==
    /\ self = [__init__("map_handler", FUNCTION_SOCK_PATH, MAX_MESSAGE_SIZE)
                 EXCEPT !.cleanup_coroutines = <<"server_graceful_shutdown">>]
    /\ servicer = <<__init__("map_handler", FUNCTION_SOCK_PATH, MAX_MESSAGE_SIZE)>>
    /\ pc = "wait"
    /\ server = "started"
    /\ loop_closed = FALSE
    /\ grace = 0
    /\ calls = [c \in Slots |-> FreeCall]
    /\ ready = <<>>
    /\ starts = 1
    /\ start_error = "none"
    /\ start_result = "none"

MapCallAny == \E r \in Requests, md \in Metadatas : Dispatch(1, r, md)
MapFnAny == \E o \in UDFMapCallable : Complete(1, o)
ReduceCallAny == \E s \in Streams : ReduceFn(1, s)

NextServing ==
    \/ MapCallAny
    \/ MapFnAny
    \/ ReduceCallAny

SpecServing == InitServing /\ [][NextServing]_vars

\* ------------------------------------------------------------------ claims
MapDone == {c \in Slots : calls[c].kind = "MapFn" /\ calls[c].state = "done"}
ReduceDone == {c \in Slots : calls[c].kind = "ReduceFn" /\ calls[c].state = "done"}

\* the positions of the metadata entries under the well-known name
Matches(md) == {i \in 1..Len(md) : md[i][1] = DATUM_KEY}
Min(S) == CHOOSE x \in S : \A y \in S : x <= y
Max(S) == CHOOSE x \in S : \A y \in S : x >= y

\* C1: a Map call whose callback raises returns a DatumList with zero
\* elements and completes successfully: no error status, no exception
\* leaves MapFn.
C1_DropOnFailure ==
    \A c \in MapDone :
        calls[c].outcome.kind = "raises" =>
            /\ calls[c].res.returned
            /\ calls[c].res.elements = <<>>
            /\ calls[c].res.raised = "none"
            /\ calls[c].res.code = "unset"

C1_Witness ==
    \E c \in MapDone : calls[c].outcome.kind = "raises" /\ calls[c].res.logs = 1

\* C2: whatever the callback does (returns a sequence, an empty sequence,
\* raises, or returns something that is no message collection), a Map call
\* hands the caller a structurally valid DatumList and no RPC-level error.
C2_AlwaysDatumList ==
    \A c \in MapDone :
        /\ calls[c].res.returned
        /\ calls[c].res.raised = "none"
        /\ \A i \in 1..Len(calls[c].res.elements) :
              DOMAIN calls[c].res.elements[i] = {"key", "value", "event_time", "watermark"}

\* C3: when the callback returns n messages the response holds exactly those
\* n messages, in the callback's order, keys and values unchanged.
C3_PassThrough ==
    \A c \in MapDone :
        (calls[c].outcome.kind = "returns" /\ calls[c].outcome.result.type = "Messages") =>
            LET out == calls[c].outcome.result.messages
                els == calls[c].res.elements
            IN  /\ calls[c].res.returned
                /\ Len(els) = Len(out)
                /\ \A i \in 1..Len(out) :
                      els[i].key = out[i].key /\ els[i].value = out[i].value

C3_Witness ==
    \E c \in MapDone :
        /\ calls[c].outcome.kind = "returns"
        /\ calls[c].outcome.result.type = "Messages"
        /\ Len(calls[c].outcome.result.messages) = 2
        /\ calls[c].outcome.result.messages[1] # calls[c].outcome.result.messages[2]
        /\ Len(calls[c].res.elements) = 2

\* C4: with a metadata entry under DATUM_KEY the key passed to the callback
\* is the value of such an entry; with no such entry (empty metadata, or
\* only other names) the key passed is the empty string.
C4_KeyExtraction ==
    \A c \in MapDone :
        LET md == calls[c].metadata
        IN  /\ Matches(md) # {} => \E i \in Matches(md) : calls[c].res.key = md[i][2]
            /\ Matches(md) = {} => calls[c].res.key = ""

C4_Witness ==
    \E c \in MapDone :
        /\ Cardinality(Matches(calls[c].metadata)) = 1
        /\ \E i \in 1..Len(calls[c].metadata) :
              /\ calls[c].metadata[i][1] # DATUM_KEY
              /\ calls[c].metadata[i][2] # calls[c].res.key
        /\ calls[c].res.key # ""

\* C5 (as claimed): with several entries under DATUM_KEY the key passed is
\* the value of the first such entry in metadata order.
C5_FirstSeenWins ==
    \A c \in MapDone :
        LET md == calls[c].metadata
        IN  Matches(md) # {} => calls[c].res.key = md[Min(Matches(md))][2]

\* C5 (amended): with several entries under DATUM_KEY the key passed is the
\* value of the last such entry in metadata order.
C5_LastSeenWins ==
    \A c \in MapDone :
        LET md == calls[c].metadata
        IN  Matches(md) # {} => calls[c].res.key = md[Max(Matches(md))][2]

C5_Witness ==
    \E c \in MapDone :
        LET md == calls[c].metadata
        IN  /\ Cardinality(Matches(md)) = 2
            /\ md[Min(Matches(md))][2] # md[Max(Matches(md))][2]
            /\ calls[c].res.key = md[Max(Matches(md))][2]

\* C6: every Reduce call, whatever its request stream, sets the status
\* UNIMPLEMENTED with the fixed detail message, signals failure, returns no
\* DatumList and reads nothing from the stream; its outcome differs from
\* that of every Map call that produced no output.
C6_ReduceUnimplemented ==
    \A c \in ReduceDone :
        /\ calls[c].res.code = "UNIMPLEMENTED"
        /\ calls[c].res.details = "Method not implemented!"
        /\ calls[c].res.raised # "none"
        /\ ~calls[c].res.returned
        /\ calls[c].res.consumed = 0
        /\ \A r \in Requests, md \in Metadatas, o \in UDFMapCallable :
              LET m == MapFnResult(r, md, o)
              IN  (m.returned /\ m.elements = <<>>) =>
                      /\ m.returned # calls[c].res.returned
                      /\ m.code # calls[c].res.code

C6_Witness ==
    \E c \in ReduceDone : Len(calls[c].stream) = MaxStream

\* C7: once startup has completed every IsReady call returns ready = true,
\* after any earlier Map (failed ones included), Reduce and IsReady calls,
\* and the call changes no other state.
C7_AlwaysReady ==
    [][ready' # ready =>
          /\ Lifecycle = "SERVING"
          /\ Len(ready') = Len(ready) + 1
          /\ SubSeq(ready', 1, Len(ready)) = ready
          /\ ready'[Len(ready')].ready = TRUE
          /\ UNCHANGED <<self, servicer, pc, server, loop_closed, grace, calls, starts,
                         start_error, start_result>>]_vars

C7_Witness ==
    /\ \E i \in 1..Len(ready) : ready[i].ready /\ ready[i].failed
    /\ ReduceDone # {}

\* a complete response: one element per message of the handler's result
FullResponse(call) ==
    /\ call.res.returned
    /\ call.res.raised = "none"
    /\ Len(call.res.elements) = Len(handler_msgs(call.outcome).messages)

\* what a step may do once the shutdown signal has arrived
ShutdownStep ==
    Lifecycle \in {"STOPPING", "STOPPED"} =>
          /\ ready' = ready
          /\ \A c \in Slots :
                IF calls[c].state # "inflight"
                THEN calls'[c] = calls[c]
                ELSE \/ calls'[c] = calls[c] /\ Lifecycle' = "STOPPING"
                     \/ /\ calls'[c].state = "done"
                        /\ grace < GracePeriod
                        /\ FullResponse(calls'[c])
                     \/ /\ calls'[c].state = "terminated"
                        /\ grace = GracePeriod
                        /\ ~calls'[c].res.returned
                        /\ calls'[c].res.elements = <<>>

\* C8: after a shutdown signal no new call is accepted, and every call in
\* flight at the signal either completes normally with a full response
\* within the grace period or is forcibly terminated once the grace period
\* has elapsed; no caller observes a partial response.
C8_GracefulShutdown == [][ShutdownStep]_vars

\* the order of the lifecycle states
Chain ==
    {<<"CREATED", "STARTING">>, <<"STARTING", "SERVING">>,
     <<"SERVING", "STOPPING">>, <<"STOPPING", "STOPPED">>}

\* a step in which an RPC arrives, and one in which an RPC ends
Arrives == ready' # ready \/ \E c \in Slots : calls[c].state # "inflight" /\ calls'[c] # calls[c]
Ends == \E c \in Slots : calls[c].state = "inflight" /\ calls'[c] # calls[c]

HandledWhileServing ==
    /\ Arrives => Lifecycle = "SERVING"
    /\ Ends => Lifecycle \in {"SERVING", "STOPPING"}

\* C9 (as claimed): the lifecycle only moves along CREATED -> STARTING ->
\* SERVING -> STOPPING -> STOPPED, no state skipped or revisited; calls are
\* handled only in SERVING (in-flight ones also in STOPPING); STOPPED is
\* terminal, no later start() brings the server back to SERVING.
C9_LifecycleChain ==
    [][/\ Lifecycle' # Lifecycle => <<Lifecycle, Lifecycle'>> \in Chain
       /\ HandledWhileServing]_vars

\* C9 (amended): as claimed, except that a failed startup takes the server
\* from STARTING back to CREATED without serving.
C9_LifecycleChainOrFailedStart ==
    [][/\ Lifecycle' # Lifecycle =>
             <<Lifecycle, Lifecycle'>> \in Chain \cup {<<"STARTING", "CREATED">>}
       /\ HandledWhileServing]_vars

C9_Witness ==
    /\ Lifecycle = "STOPPED"
    /\ pc = "idle"
    /\ start_error = "RuntimeError"
    /\ starts >= 2

\* C10: start() does not return control while the server is STARTING,
\* SERVING or STOPPING; after a shutdown it has returned only once the
\* server is STOPPED.
C10_StartBlocks ==
    pc = "idle" =>
        /\ Lifecycle \notin {"STARTING", "SERVING", "STOPPING"}
        /\ start_result = "KeyboardInterrupt" => Lifecycle = "STOPPED"

C10_Witness ==
    /\ pc = "idle"
    /\ start_result = "KeyboardInterrupt"
    /\ Lifecycle = "STOPPED"
    /\ \E c \in Slots : calls[c].state = "terminated"

\* C11: when startup fails (the endpoint cannot be bound, the server cannot be
\* started) the failure is not recovered: start() ends with that startup
\* failure as the error its caller sees, and the server has not reached SERVING.
C11_StartupErrorReported ==
    (pc = "idle" /\ start_error = "StartupError") =>
        /\ start_result = "StartupError"
        /\ Lifecycle = "CREATED"

\* the response of a finished Map call, read off that call's own inputs
OwnResponse(call) ==
    LET md == call.metadata
    IN  /\ call.res.key = (IF Matches(md) = {} THEN "" ELSE md[Max(Matches(md))][2])
        /\ call.res.datum.value = call.request.value
        /\ call.outcome.kind = "raises" => call.res.elements = <<>>
        /\ (call.outcome.kind = "returns" /\ call.outcome.result.type = "Messages") =>
              /\ Len(call.res.elements) = Len(call.outcome.result.messages)
              /\ \A i \in 1..Len(call.res.elements) :
                    /\ call.res.elements[i].key = call.outcome.result.messages[i].key
                    /\ call.res.elements[i].value = call.outcome.result.messages[i].value

\* what the end of one Map call may touch
IndependentStep ==
    \A c \in Slots :
        (calls[c].state = "inflight" /\ calls'[c].state = "done") =>
            /\ calls'[c].request = calls[c].request
            /\ calls'[c].metadata = calls[c].metadata
            /\ OwnResponse(calls'[c])
            /\ \A d \in Slots \ {c} : calls'[d] = calls[d]

\* C12: for any interleaving of concurrently in-flight Map calls, each call's
\* response depends only on that call's own request, metadata and callback
\* result; nothing of one call appears in or alters the response of another.
C12_CallsIndependent == [][IndependentStep]_vars

C12_Witness ==
    \E c \in MapDone, d \in InFlight :
        /\ calls[c].metadata # calls[d].metadata
        /\ calls[c].res.key = "a"
        /\ calls[c].res.returned
        /\ Len(calls[c].res.elements) = 1

\* after a failed Map call the server still takes and finishes Map calls
StillServing ==
    (Lifecycle = "SERVING" /\ FailedMaps # {}) =>
        /\ \A d \in Slots \ InFlight :
              ENABLED (\E r \in SmallRequests, md \in SmallMetadatas : Dispatch(d, r, md))
        /\ \A d \in InFlight : \A o \in SmallUDFMapCallable : ENABLED Complete(d, o)

\* the step in which a Map call fails leaves the lifecycle where it was
FailureStep ==
    \A c \in Slots :
        (calls[c].state = "inflight" /\ calls'[c].state = "done" /\ calls'[c].res.logs > 0) =>
            /\ server' = server
            /\ pc' = pc
            /\ calls'[c].res.returned

\* C13: a callback failure in one Map call never takes the server out of
\* SERVING and never blocks later calls: after failed Map calls the server
\* still dispatches every later Map call to the callback and answers it.
C13_FailureContained == [][FailureStep]_vars /\ []StillServing

C13_Witness ==
    /\ Lifecycle = "SERVING"
    /\ \E c \in FailedMaps, d \in MapDone :
          /\ c # d
          /\ calls[d].res.returned
          /\ calls[d].res.elements # <<>>

\* C14: each Map call invokes the callback exactly once, whether it returns
\* or raises (no retry); one critical log line is written per failed
\* invocation and none for a successful one.
C14_OnceNoRetry ==
    \A c \in MapDone :
        /\ calls[c].res.invoked = 1
        /\ calls[c].res.logs = (IF calls[c].outcome.kind = "raises" THEN 1 ELSE 0)

C14_Witness ==
    \E c \in MapDone :
        /\ calls[c].outcome.kind = "raises"
        /\ calls[c].res.invoked = 1
        /\ calls[c].metadata # <<>>

\* C15: once shutdown has been triggered the server eventually reaches
\* STOPPED and start() returns, even if the callback of an in-flight Map call
\* never finishes: calls still outstanding after the grace period (5) are
\* terminated, none is left in flight.
C15_ShutdownTerminates ==
    /\ (Lifecycle = "STOPPING") ~> (Lifecycle = "STOPPED" /\ pc = "idle")
    /\ [](Lifecycle = "STOPPED" => InFlight = {})

C15_Witness ==
    /\ Lifecycle = "STOPPED"
    /\ pc = "idle"
    /\ grace = GracePeriod
    /\ \A c \in Slots : calls[c].state = "terminated"

\* C16: while the callback of one Map call is blocked the server still accepts
\* and completes other calls (Map, Reduce and IsReady); the blocked callback
\* holds up its own call only.
C16_BlockingIsLocal ==
    \A c \in InFlight :
        Lifecycle = "SERVING" =>
            /\ \A d \in Slots \ InFlight :
                  /\ ENABLED (\E r \in SmallRequests, md \in SmallMetadatas : Dispatch(d, r, md))
                  /\ ENABLED (\E s \in SmallStreams : ReduceFn(d, s))
            /\ \A d \in InFlight \ {c} : \A o \in SmallUDFMapCallable : ENABLED Complete(d, o)
            /\ Len(ready) < MaxProbes => ENABLED IsReady

C16_Witness ==
    /\ Lifecycle = "SERVING"
    /\ \E c \in InFlight, d \in MapDone : calls[d].res.returned
    /\ ready # <<>>

\* a step in which a call is handled or ends leaves both servicer objects alone
HandlerFrame ==
    (calls' # calls \/ ready' # ready) => (self' = self /\ servicer' = servicer)

\* C17: no Map, Reduce or IsReady call changes any state of the servicer:
\* callback reference, socket path, maximum message size and the list of
\* cleanup actions are the same after the call as before, for every outcome.
C17_HandlersKeepServicer == [][HandlerFrame]_vars

C17_Witness ==
    /\ servicer # <<>>
    /\ servicer[1].cleanup_coroutines = <<>>
    /\ servicer[1].map_handler = self.map_handler
    /\ Len(self.cleanup_coroutines) = 1
    /\ FailedMaps # {}
    /\ ReduceDone # {}
    /\ ready # <<>>

\* C18: on every path by which start() leaves its serve loop (an interrupt
\* while SERVING, an error raised inside the serve routine) exactly one
\* graceful-shutdown action (stop with grace period 5) has been registered
\* and run to completion before the event loop is closed.
C18_ExactlyOneShutdown ==
    (pc = "idle" /\ start_error \in {"StartupError", "KeyboardInterrupt"}) =>
        /\ Len(self.cleanup_coroutines) = 1
        /\ Lifecycle = "STOPPED"
        /\ loop_closed

====
